---------------------------- MODULE Spec2Model ----------------------------
(***************************************************************************)
(* Widget-host synchronisation of the ads-roi MCP app.                     *)
(*                                                                         *)
(* The module models the two widget programs of the repository, the ROI    *)
(* dashboard (web/widgets/dashboard.tsx, RoiCalculatorWidget) and the      *)
(* scaffold widget (Widget), together with the calculate_campaign_roi      *)
(* handler of src/server.ts that answers the dashboard's calls, and the    *)
(* capability test hasUISupport.                                           *)
(*                                                                         *)
(* One widget program runs in the frame; which one is fixed in Init        *)
(* (impl).  Every handler is one action; React's re-render after a state   *)
(* change is part of the handler's action (Render).  Time is explicit for  *)
(* the debounce timers: Tick advances the age of every active timer and a  *)
(* timer's callback can run once its age has reached its delay.            *)
(***************************************************************************)
EXTENDS Integers, Sequences, FiniteSets, TLC

(***************************************************************************)
(* Bounds of the model.                                                    *)
(***************************************************************************)
\* number of slider edits in one run (each edit allocates a timer id)
MaxEdits == 2
\* number of tool-result notifications the host delivers in one run: the
\* second one can arrive while a timer or a call is pending
MaxToolResults == 2
\* number of tool calls a client makes in one session
MaxCalls == 3

(***************************************************************************)
(* Program constants.                                                      *)
(***************************************************************************)
\* setTimeout(..., 500) in handleSliderChange
DebounceDelay == 500
\* number of points of the profit curve: for (let i = 0; i < 10; i++)
ScenarioCount == 10

\* granularity of the clock of the model: two ticks make one debounce delay
TickMs == DebounceDelay \div 2

(***************************************************************************)
(* Values.                                                                 *)
(***************************************************************************)
\* JavaScript null / undefined, as a record so that it compares with records
Null == [null |-> TRUE]

Keys == {"monthlyBudget", "cpc", "conversionRatePercent", "averageOrderValue"}

\* values a slider can be moved to (a sample of each <input type="range">).
\* cpc is in cents, so that cost per click 2.5 is the integer 250; the other
\* fields are in the units of the source.
SliderValues(key) ==
  CASE key = "monthlyBudget"         -> {1000, 2000}
    [] key = "cpc"                   -> {100, 200}
    [] key = "conversionRatePercent" -> {5}
    [] key = "averageOrderValue"     -> {100}

\* the Parameter Sets of the model
ParameterSets ==
  [monthlyBudget : SliderValues("monthlyBudget"),
   cpc : SliderValues("cpc"),
   conversionRatePercent : SliderValues("conversionRatePercent"),
   averageOrderValue : SliderValues("averageOrderValue")]

\* useState({monthlyBudget: 10000, cpc: 2.5, ...}): the sliders' first value
DefaultInputs ==
  [monthlyBudget |-> 10000, cpc |-> 250, conversionRatePercent |-> 5,
   averageOrderValue |-> 100]

(***************************************************************************)
(* Numbers.  A JavaScript number is an IEEE 754 binary64 value: a sign, a  *)
(* significand of 53 bits and an exponent, and every arithmetic operator   *)
(* returns the exact result rounded to the nearest such value, ties to the *)
(* even significand.  A finite number is 0 or neg, sig, exp with            *)
(* 2^52 <= sig < 2^53 and value (-1)^neg * sig * 2^exp,                    *)
(* -1074 <= exp <= 971, or is subnormal: sig < 2^52 and exp = -1074.  A    *)
(* result too large for that is Infinity, one too small is rounded to a    *)
(* subnormal number or to 0, a division of a number other than 0 by 0 is   *)
(* Infinity, and Infinity * 0, Infinity - Infinity and 0 / 0 are NaN.      *)
(* Significands, and the exact results before rounding, are naturals       *)
(* below 2^108: four limbs of 27 bits, least first.                        *)
(***************************************************************************)
\* bits of a limb
LimbBits == 27
\* bits of the significand of a binary64 value
Precision == 53
\* bits of a digit of the multiplication
DigitBits == 4

LimbBase == 2^LimbBits

Zero == <<0, 0, 0, 0>>
One == <<1, 0, 0, 0>>

\* the natural n < 2^31 in limbs
Limbs(n) == <<n % LimbBase, n \div LimbBase, 0, 0>>

\* x + y
Plus(x, y) ==
  LET s1 == x[1] + y[1]
      s2 == x[2] + y[2] + s1 \div LimbBase
      s3 == x[3] + y[3] + s2 \div LimbBase
      s4 == x[4] + y[4] + s3 \div LimbBase
  IN  <<s1 % LimbBase, s2 % LimbBase, s3 % LimbBase, s4 % LimbBase>>

\* x - y for x >= y
Minus(x, y) ==
  LET d1 == x[1] - y[1]
      d2 == x[2] - y[2] - (IF d1 < 0 THEN 1 ELSE 0)
      d3 == x[3] - y[3] - (IF d2 < 0 THEN 1 ELSE 0)
      d4 == x[4] - y[4] - (IF d3 < 0 THEN 1 ELSE 0)
  IN  <<(d1 + LimbBase) % LimbBase, (d2 + LimbBase) % LimbBase,
        (d3 + LimbBase) % LimbBase, (d4 + LimbBase) % LimbBase>>

\* x * c for a digit c
Times(x, c) ==
  LET p1 == x[1] * c
      p2 == x[2] * c + p1 \div LimbBase
      p3 == x[3] * c + p2 \div LimbBase
      p4 == x[4] * c + p3 \div LimbBase
  IN  <<p1 % LimbBase, p2 % LimbBase, p3 % LimbBase, p4 % LimbBase>>

\* x < y
Less(x, y) ==
  \E i \in 1..4 : x[i] < y[i] /\ \A j \in (i + 1)..4 : x[j] = y[j]

Odd(x) == x[1] % 2 = 1

\* x * 2^k, the 108 low bits of it
RECURSIVE ShiftLeft(_, _)
ShiftLeft(x, k) ==
  IF k >= 4 * LimbBits THEN Zero
  ELSE IF k >= LimbBits THEN ShiftLeft(<<0, x[1], x[2], x[3]>>, k - LimbBits)
  ELSE LET hi == 2^(LimbBits - k)
           lo == 2^k
       IN  <<(x[1] % hi) * lo,
             (x[2] % hi) * lo + x[1] \div hi,
             (x[3] % hi) * lo + x[2] \div hi,
             (x[4] % hi) * lo + x[3] \div hi>>

\* x div 2^k
RECURSIVE ShiftRight(_, _)
ShiftRight(x, k) ==
  IF k >= 4 * LimbBits THEN Zero
  ELSE IF k >= LimbBits THEN ShiftRight(<<x[2], x[3], x[4], 0>>, k - LimbBits)
  ELSE LET lo == 2^k
           hi == 2^(LimbBits - k)
       IN  <<x[1] \div lo + (x[2] % lo) * hi,
             x[2] \div lo + (x[3] % lo) * hi,
             x[3] \div lo + (x[4] % lo) * hi,
             x[4] \div lo>>

\* x mod 2^k # 0
Lost(x, k) == ShiftLeft(ShiftRight(x, k), k) # x

\* the number of bits of n < 2^27, and of x
RECURSIVE Bits(_)
Bits(n) == IF n = 0 THEN 0 ELSE 1 + Bits(n \div 2)

BitLength(x) ==
  IF x[4] > 0 THEN 3 * LimbBits + Bits(x[4])
  ELSE IF x[3] > 0 THEN 2 * LimbBits + Bits(x[3])
  ELSE IF x[2] > 0 THEN LimbBits + Bits(x[2])
  ELSE Bits(x[1])

\* x * y for x, y < 2^53, digit by digit of y from digit j upwards
RECURSIVE Product(_, _, _)
Product(x, y, j) ==
  IF j * DigitBits >= Precision THEN Zero
  ELSE Plus(ShiftLeft(Product(x, y, j + 1), DigitBits),
            Times(x, ShiftRight(y, j * DigitBits)[1] % 2^DigitBits))

\* k more bits of the quotient s.q of a division by d whose remainder s.r is
\* less than 2 * d
RECURSIVE Quotient(_, _, _)
Quotient(s, d, k) ==
  IF k = 0 THEN s
  ELSE IF Less(s.r, d)
  THEN Quotient([r |-> Plus(s.r, s.r), q |-> Plus(s.q, s.q)], d, k - 1)
  ELSE Quotient([r |-> ShiftLeft(Minus(s.r, d), 1),
                 q |-> Plus(Plus(s.q, s.q), One)], d, k - 1)

\* the least and the first too large significand, 2^52 and 2^53
MinSig == ShiftLeft(One, Precision - 1)
MaxSig == ShiftLeft(One, Precision)

\* the number 0 (the computation produces no -0)
PosZero == [neg |-> FALSE, sig |-> Zero, exp |-> 0]

\* the exponent of the largest finite numbers: 2^53 * 2^971 = 2^1024
MaxExponent == 971
\* the exponent of the least normal numbers and of the subnormal ones
MinExponent == -1074

\* Infinity and -Infinity, and NaN: exponents no finite number has
Infinity(neg) == [neg |-> neg, sig |-> MinSig, exp |-> MaxExponent + 1]
NaN == [neg |-> FALSE, sig |-> Plus(MinSig, One), exp |-> MaxExponent + 1]

IsFinite(a) == a.exp <= MaxExponent
IsNaN(a) == ~IsFinite(a) /\ a.sig # MinSig

\* the number x, or Infinity when its exponent is too large
Overflow(x) == IF IsFinite(x) THEN x ELSE Infinity(x.neg)

\* the significand kept of n when drop > 0 bits are dropped, rounded: one is
\* added when the first dropped bit is 1 and either a later one is (or
\* sticky: a fraction below the last bit was cut off) or the kept part is odd
Nearest(n, drop, sticky, kept) ==
  IF Odd(ShiftRight(n, drop - 1)) /\ (sticky \/ Lost(n, drop - 1) \/ Odd(kept))
  THEN Plus(kept, One)
  ELSE kept

\* the number of the rounded significand r: a carry out of the 53 bits gives
\* the least significand and the next exponent, and nothing kept gives 0
Normal(neg, r, e) ==
  IF r = MaxSig THEN [neg |-> neg, sig |-> MinSig, exp |-> e + 1]
  ELSE IF r = Zero THEN PosZero
  ELSE [neg |-> neg, sig |-> r, exp |-> e]

\* the same for n # 0 of which drop bits are dropped (drop <= 0: none)
Rounded(neg, n, e, sticky, drop) ==
  IF drop <= 0
  THEN [neg |-> neg, sig |-> ShiftLeft(n, -drop), exp |-> e + drop]
  ELSE Normal(neg, Nearest(n, drop, sticky, ShiftRight(n, drop)), e + drop)

\* the larger of two integers
Max(e, f) == IF e > f THEN e ELSE f

\* the binary64 value nearest to (-1)^neg * (n + rest) * 2^e, where rest is 0
\* or, with sticky, a fraction strictly between 0 and 1: 53 bits of n are
\* kept, fewer when the exponent would fall below the least one
Number(neg, n, e, sticky) ==
  IF n = Zero THEN PosZero
  ELSE Overflow(Rounded(neg, n, e, sticky,
                        Max(BitLength(n) - Precision, MinExponent - e)))

\* the number of an integer literal k, |k| < 2^31
FromInt(k) == Number(k < 0, Limbs(IF k < 0 THEN -k ELSE k), 0, FALSE)

IsZero(a) == a.sig = Zero

\* a * b
Multiply(a, b) ==
  IF IsNaN(a) \/ IsNaN(b) THEN NaN
  ELSE IF ~IsFinite(a) \/ ~IsFinite(b)
  THEN IF IsZero(a) \/ IsZero(b) THEN NaN ELSE Infinity(a.neg # b.neg)
  ELSE IF IsZero(a) \/ IsZero(b) THEN PosZero
  ELSE Number(a.neg # b.neg, Product(a.sig, b.sig, 0), a.exp + b.exp, FALSE)

\* the number of the quotient bits s.q, sticky when a remainder is left
Ratio(neg, s, e) == Number(neg, s.q, e, s.r # Zero)

\* the number a # 0 with a significand of 53 bits: the significand of a
\* subnormal number is shifted up
Normalised(a) ==
  [a EXCEPT !.sig = ShiftLeft(a.sig, Precision - BitLength(a.sig)),
            !.exp = a.exp - (Precision - BitLength(a.sig))]

\* x / y for finite x, y # 0 with significands of 53 bits
QuotientOf(neg, x, y) ==
  Ratio(neg, Quotient([r |-> x.sig, q |-> Zero], y.sig, Precision + 3),
        x.exp - y.exp - (Precision + 2))

\* a / b, for a divisor that is not -0
Divide(a, b) ==
  IF IsNaN(a) \/ IsNaN(b) \/ (~IsFinite(a) /\ ~IsFinite(b)) THEN NaN
  ELSE IF ~IsFinite(a) THEN Infinity(a.neg # b.neg)
  ELSE IF ~IsFinite(b) THEN PosZero
  ELSE IF IsZero(b) THEN IF IsZero(a) THEN NaN ELSE Infinity(a.neg)
  ELSE IF IsZero(a) THEN PosZero
  ELSE QuotientOf(a.neg # b.neg, Normalised(a), Normalised(b))

\* the smaller of two exponents
Min(e, f) == IF e < f THEN e ELSE f

\* (-1)^aneg * x * 2^e - (-1)^bneg * y * 2^e
Difference(aneg, x, bneg, y, e) ==
  Number(IF aneg = bneg /\ Less(x, y) THEN ~aneg ELSE aneg,
         IF aneg # bneg THEN Plus(x, y)
         ELSE IF Less(x, y) THEN Minus(y, x)
         ELSE Minus(x, y),
         e, FALSE)

\* a - b; a number below a quarter of the last bit of the other one does not
\* change it
Subtract(a, b) ==
  IF IsNaN(a) \/ IsNaN(b) THEN NaN
  ELSE IF ~IsFinite(a) THEN IF IsFinite(b) \/ a.neg # b.neg THEN a ELSE NaN
  ELSE IF ~IsFinite(b) THEN Infinity(~b.neg)
  ELSE IF IsZero(b) THEN a
  ELSE IF IsZero(a) THEN [b EXCEPT !.neg = ~b.neg]
  ELSE IF a.exp - b.exp > Precision + 1 THEN a
  ELSE IF b.exp - a.exp > Precision + 1 THEN [b EXCEPT !.neg = ~b.neg]
  ELSE Difference(a.neg, ShiftLeft(a.sig, a.exp - Min(a.exp, b.exp)),
                  b.neg, ShiftLeft(b.sig, b.exp - Min(a.exp, b.exp)),
                  Min(a.exp, b.exp))

\* a > 0
Positive(a) == ~IsNaN(a) /\ ~IsZero(a) /\ ~a.neg

\* a <= b, for numbers of which one is finite
NotNegative(d) == ~IsNaN(d) /\ (IsZero(d) \/ ~d.neg)
AtMost(a, b) == NotNegative(Subtract(b, a))

\* Math.floor(a) and Math.ceil(a): the integer part of |a|, one more when a
\* fraction is cut off on the side the rounding goes to
Integral(a, up) ==
  IF ~IsFinite(a) \/ IsZero(a) \/ a.exp >= 0 THEN a
  ELSE Number(a.neg,
              IF Lost(a.sig, -a.exp) /\ (a.neg # up)
              THEN Plus(ShiftRight(a.sig, -a.exp), One)
              ELSE ShiftRight(a.sig, -a.exp),
              0, FALSE)

MathFloor(a) == Integral(a, FALSE)
MathCeil(a) == Integral(a, TRUE)

\* the value of a decimal literal with two fraction digits, given in
\* hundredths (250 for 2.5): the number nearest to it
FromHundredths(k) == Divide(FromInt(k), FromInt(100))

(***************************************************************************)
(* The computation of the calculate_campaign_roi handler.                  *)
(***************************************************************************)
\* Math.floor(a / b)
FloorDiv(a, b) == MathFloor(Divide(a, b))

\* Math.ceil(a / b)
CeilDiv(a, b) == MathCeil(Divide(a, b))

\* the numbers of a Parameter Set: cpc is given in cents
Args(p) ==
  [monthlyBudget |-> FromInt(p.monthlyBudget),
   cpc |-> FromHundredths(p.cpc),
   conversionRatePercent |-> FromInt(p.conversionRatePercent),
   averageOrderValue |-> FromInt(p.averageOrderValue)]

\* step 2, for rate = conversionRatePercent / 100:
\* Math.floor(clicks * (conversionRatePercent / 100))
Conversions(clicks, rate) == MathFloor(Multiply(clicks, rate))

\* a step 4 that subtracts the wrong way round
Profit_Swapped(revenue, monthlyBudget) == Subtract(monthlyBudget, revenue)

\* step 4: revenue - monthlyBudget
Profit(revenue, monthlyBudget) == Subtract(revenue, monthlyBudget)

\* a step 5 that gives the ratio, not the percentage
RoiPercent_Ratio(profit, monthlyBudget) == Divide(profit, monthlyBudget)

\* step 5: (profit / monthlyBudget) * 100
RoiPercent(profit, monthlyBudget) ==
  Multiply(Divide(profit, monthlyBudget), FromInt(100))

\* a step 6 that rounds the break-even budget down
BreakEvenBudget_Floor(cpc, rate, aov) ==
  IF Positive(rate) /\ Positive(aov)
  THEN FloorDiv(cpc, Multiply(rate, aov))
  ELSE PosZero

\* a step 6 that guards the order value only and takes a rate of 0 for 1
BreakEvenBudget_RateUnguarded(cpc, rate, aov) ==
  IF Positive(aov)
  THEN CeilDiv(cpc, IF Positive(rate) THEN Multiply(rate, aov) ELSE aov)
  ELSE PosZero

\* step 6, for rate = conversionRateDecimal
BreakEvenBudget(cpc, rate, aov) ==
  IF Positive(rate) /\ Positive(aov)
  THEN CeilDiv(cpc, Multiply(rate, aov))
  ELSE PosZero

\* steps 1 to 4 for one budget: revenue - budget, where rate is
\* conversionRatePercent / 100
ProfitAt(budget, cpc, rate, aov) ==
  LET clicks == FloorDiv(budget, cpc)
      conversions == Conversions(clicks, rate)
      revenue == Multiply(conversions, aov)
  IN  Subtract(revenue, budget)

\* a step 7 whose scenarios run from the largest budget down
ScenarioBudget_Descending(monthlyBudget, i) ==
  LET maxBudget == Multiply(monthlyBudget, FromInt(2))
      budgetStep == Divide(maxBudget, FromInt(ScenarioCount - 1))
  IN  MathFloor(Multiply(budgetStep, FromInt(ScenarioCount - 1 - i)))

\* a step 7 that rounds the scenario budgets up
ScenarioBudget_Ceiling(monthlyBudget, i) ==
  LET maxBudget == Multiply(monthlyBudget, FromInt(2))
      budgetStep == Divide(maxBudget, FromInt(ScenarioCount - 1))
  IN  MathCeil(Multiply(budgetStep, FromInt(i)))

\* Math.floor(budgetStep * i) with budgetStep = monthlyBudget * 2 / 9
ScenarioBudget(monthlyBudget, i) ==
  LET maxBudget == Multiply(monthlyBudget, FromInt(2))
      budgetStep == Divide(maxBudget, FromInt(ScenarioCount - 1))
  IN  MathFloor(Multiply(budgetStep, FromInt(i)))

\* one round of the loop of step 7: what is pushed to budgetScenarios and to
\* profitCurve
Scenario(a, rate, scenarioBudget) ==
  [budget |-> scenarioBudget,
   profit |-> ProfitAt(scenarioBudget, a.cpc, rate, a.averageOrderValue)]

\* the loop of step 7 after n rounds
RECURSIVE Scenarios(_, _, _)
Scenarios(a, rate, n) ==
  IF n = 0 THEN <<>>
  ELSE Append(Scenarios(a, rate, n - 1),
              Scenario(a, rate, ScenarioBudget(a.monthlyBudget, n - 1)))

\* steps 5 and 6, and the metrics of the result
WithRatios(a, clicks, conversions, revenue, profit) ==
  [clicks |-> clicks, conversions |-> conversions, revenue |-> revenue,
   profit |-> profit,
   roiPercent |-> RoiPercent(profit, a.monthlyBudget),
   breakEvenBudget |->
     BreakEvenBudget(a.cpc, Divide(a.conversionRatePercent, FromInt(100)),
                     a.averageOrderValue)]

\* step 4 and the steps after it
WithProfit(a, clicks, conversions, revenue) ==
  WithRatios(a, clicks, conversions, revenue, Profit(revenue, a.monthlyBudget))

\* step 3 and the steps after it
WithRevenue(a, clicks, conversions) ==
  WithProfit(a, clicks, conversions, Multiply(conversions, a.averageOrderValue))

\* step 2 and the steps after it
WithConversions(a, clicks) ==
  WithRevenue(a, clicks,
              Conversions(clicks, Divide(a.conversionRatePercent, FromInt(100))))

\* steps 1 to 6 for the arguments a: the metrics of the result
Metrics(a) == WithConversions(a, FloorDiv(a.monthlyBudget, a.cpc))

\* step 8: the result object of the arguments and of what the loop pushed
Result(p, a, pushed) ==
  [inputs |-> p,
   metrics |-> Metrics(a),
   chartData |->
     [budgetScenarios |-> [i \in 1..Len(pushed) |-> pushed[i].budget],
      profitCurve |-> [i \in 1..Len(pushed) |-> pushed[i].profit]]]

\* steps 7 and 8 for the numbers a of the Parameter Set p
Calculation(p, a) ==
  Result(p, a,
         Scenarios(a, Divide(a.conversionRatePercent, FromInt(100)),
                   ScenarioCount))

\* the result object built in steps 1 to 8
CalculateRoi(p) == Calculation(p, Args(p))

(***************************************************************************)
(* Text content.  A text is either a JSON document or a string that is no  *)
(* JSON document.  JSON has numerals for the finite numbers only:          *)
(* JSON.stringify writes NaN and the infinities as null.  A numeral is     *)
(* held as the number it denotes (Number::toString gives the shortest      *)
(* numeral that reads back as the same number).                            *)
(***************************************************************************)
\* the serialisation of the number x
JSONNumber(x) ==
  IF IsFinite(x) THEN [numeral |-> x] ELSE [literal |-> "null"]

\* JSON.stringify(value, null, 2) of a result object: the members inputs
\* (the validated arguments, finite numbers), metrics and chartData
JSONStringify(value) ==
  [json |-> TRUE,
   inputs |-> value.inputs,
   metrics |-> [k \in DOMAIN value.metrics |-> JSONNumber(value.metrics[k])],
   chartData |->
     [k \in DOMAIN value.chartData |->
        [i \in DOMAIN value.chartData[k] |->
           JSONNumber(value.chartData[k][i])]]]

\* `Error calculating ROI: ...`, an SDK error message: not a JSON document
PlainText == [json |-> FALSE]

\* the value of a numeral or of null
JSONValue(token) ==
  IF "numeral" \in DOMAIN token THEN token.numeral ELSE Null

\* JSON.parse(text): a SyntaxError is thrown, or the object of the document
ParseThrows(text) == ~text.json
JSONParse(text) ==
  [inputs |-> text.inputs,
   metrics |-> [k \in DOMAIN text.metrics |-> JSONValue(text.metrics[k])],
   chartData |->
     [k \in DOMAIN text.chartData |->
        [i \in DOMAIN text.chartData[k] |->
           JSONValue(text.chartData[k][i])]]]

\* the Parameter Sets the sliders can hold: per field, the first value or a
\* value a slider was moved to
SliderSets ==
  [monthlyBudget : SliderValues("monthlyBudget") \cup {DefaultInputs.monthlyBudget},
   cpc : SliderValues("cpc") \cup {DefaultInputs.cpc},
   conversionRatePercent :
     SliderValues("conversionRatePercent") \cup {DefaultInputs.conversionRatePercent},
   averageOrderValue :
     SliderValues("averageOrderValue") \cup {DefaultInputs.averageOrderValue}]

\* the inputSchema: monthlyBudget, cpc and averageOrderValue positive,
\* conversionRatePercent from 0 to 100
ValidArgs(a) ==
  /\ Positive(a.monthlyBudget)
  /\ Positive(a.cpc)
  /\ AtMost(PosZero, a.conversionRatePercent)
  /\ AtMost(a.conversionRatePercent, FromInt(100))
  /\ Positive(a.averageOrderValue)

\* does the Parameter Set p pass the inputSchema
Valid(p) == ValidArgs(Args(p))

\* the arguments of the calls a client makes (cpc in cents): the first
\* values of the schema, rates at the ends of the range and rates whose
\* products are not exact, and arguments the schema rejects
CallArguments ==
  [monthlyBudget : {0, 1, 3000, 10000},
   cpc : {150, 250},
   conversionRatePercent : {0, 5, 29, 100, 101},
   averageOrderValue : {10, 100}]

\* the arguments of the calls of a session: the first values, a smaller
\* budget, a conversion rate of 0, and a budget the schema rejects
SessionArguments ==
  {DefaultInputs,
   [DefaultInputs EXCEPT !.monthlyBudget = 3000],
   [DefaultInputs EXCEPT !.conversionRatePercent = 0],
   [DefaultInputs EXCEPT !.monthlyBudget = 0]}

\* the result objects of the Parameter Sets of the model, computed once
ResultRecords ==
  {CalculateRoi(p) : p \in SliderSets \cup {q \in CallArguments : Valid(q)}}

\* the result object of a call with arguments p
ResultOf(p) == CHOOSE result \in ResultRecords : result.inputs = p

\* the result object as text content and as structuredContent
Packaged(result) ==
  [isError |-> FALSE,
   content |-> <<[type |-> "text", text |-> JSONStringify(result)]>>,
   structuredContent |-> result]

\* the handler's success return
SuccessResult(p) == Packaged(ResultOf(p))

\* the handler's catch return, and the SDK's rendering of a thrown error
ErrorResult ==
  [isError |-> TRUE,
   content |-> <<[type |-> "text", text |-> PlainText]>>,
   structuredContent |-> Null]

\* a result without content
EmptyResult == [isError |-> FALSE, content |-> <<>>, structuredContent |-> Null]

\* a failure without content
ErrorNoContent == [isError |-> TRUE, content |-> <<>>, structuredContent |-> Null]

\* a result whose text is not JSON although isError is not set
GarbledResult ==
  [isError |-> FALSE,
   content |-> <<[type |-> "text", text |-> PlainText]>>,
   structuredContent |-> Null]

\* the CallToolResults the host can deliver or a call can resolve with
FailureResults == {ErrorResult, ErrorNoContent, EmptyResult, GarbledResult}
ToolResults == {SuccessResult(p) : p \in ParameterSets} \cup FailureResults

(***************************************************************************)
(* State.                                                                  *)
(***************************************************************************)
VARIABLES
  impl,                \* the widget program in the frame
  data,                \* dashboard: useState<RoiResult | null>(null)
  loading,             \* dashboard: useState(true)
  inputs,              \* dashboard: useState({monthlyBudget: 10000, ...})
  debounceTimeoutRef,  \* dashboard: id of the last timer set, 0 for null
  chart,               \* dashboard: chartRef.current, the Chart.js instance
  timers,              \* the frame's active setTimeout timers
  nextTimerId,         \* the id the next setTimeout returns
  calls,               \* callServerTool calls that have not resolved
  dark,                \* documentElement.classList contains "dark"
  state,               \* scaffold widget: useState<WidgetState>
  widgetData,          \* scaffold widget: useState<ToolResultData | null>
  ack,                 \* what onteardown returned to the host
  \* history, read by the properties only
  toolResults,         \* number of tool-result notifications delivered
  lastContext,         \* the last host-context notification
  teardown,            \* what onteardown found when it ran
  dataCall,            \* id of the call whose response is in data
  burst,               \* the edits the armed timer stands for
  failure,             \* a failure was handled after the last user action
  props,               \* server: this.props, the authentication context
  handled              \* server: the calls of the session and their outcomes

dashVars == <<data, loading, inputs, debounceTimeoutRef, chart, timers,
              nextTimerId, calls, dataCall, burst>>
tmplVars == <<state, widgetData>>
vars == <<impl, data, loading, inputs, debounceTimeoutRef, chart, timers,
          nextTimerId, calls, dark, state, widgetData, ack, toolResults,
          lastContext, teardown, dataCall, burst, failure, props, handled>>
frameVars == <<impl, data, loading, inputs, debounceTimeoutRef, chart, timers,
               nextTimerId, calls, dark, state, widgetData, ack, toolResults,
               lastContext, teardown, dataCall, burst, failure>>
serverVars == <<props, handled>>

Themes == {"light", "dark"}

\* the host-context notifications: every field of the context is optional
HostContexts ==
  [theme : Themes \cup {"absent"}, viewport : {Null, [width |-> 800, height |-> 600]}]

(***************************************************************************)
(* The dashboard's view.                                                   *)
(***************************************************************************)
\* a JSX that shows the sliders of a record while "Calculating..." too
ShowsResult_WhileLoading(d, l) == d # Null

\* the branch of the JSX that shows the sliders, the metrics and the chart
ShowsResult(d, l) == ~l /\ d # Null

\* the theme the chart options are computed for: isDark
ThemeOf(dk) == IF dk THEN "dark" ELSE "light"

\* the chart after a render: <Line ref={chartRef}> is mounted exactly in the
\* result branch; react-chartjs-2 creates the instance on mount, destroys it
\* and clears the ref on unmount, and pushes new options into the instance
\* that is mounted
Render(c, d, l, dk) ==
  IF ~ShowsResult(d, l) THEN Null
  ELSE IF c = Null THEN [theme |-> ThemeOf(dk), destroyed |-> FALSE]
  ELSE [c EXCEPT !.theme = ThemeOf(dk)]

\* the variant of the Widget State the dashboard shows
\* ("Calculating...", the result branch, "No data available"); the component
\* holds no error message, so no state of it is Error(message)
DashboardVariant ==
  IF loading THEN "Loading" ELSE IF data # Null THEN "Success" ELSE "NoData"

(***************************************************************************)
(* Init: the state after the first render and useApp's connect.            *)
(***************************************************************************)
FrameInit ==
  /\ impl \in {"dashboard", "template"}
  /\ data = Null
  /\ loading = (impl = "dashboard")
  /\ inputs = DefaultInputs
  /\ debounceTimeoutRef = 0
  /\ chart = Null
  /\ timers = {}
  /\ nextTimerId = 1
  /\ calls = {}
  /\ dark = FALSE
  /\ state = [status |-> "idle"]
  /\ widgetData = Null
  /\ ack = Null
  /\ toolResults = 0
  /\ lastContext = Null
  /\ teardown = Null
  /\ dataCall = 0
  /\ burst = [n |-> 0, inputs |-> Null]
  /\ failure = FALSE

\* the widget in its frame; the server is not part of the frame
Init ==
  /\ FrameInit
  /\ props = Null
  /\ handled = <<>>

(***************************************************************************)
(* Dashboard handlers.                                                     *)
(***************************************************************************)
\* result.content.filter(type === "text").map(text).join("")
JoinText(content) ==
  LET texts == SelectSeq(content, LAMBDA c : c.type = "text")
  IN  IF Len(texts) = 1 THEN texts[1].text ELSE PlainText

\* the initial result is a failure or cannot be parsed
FailedResult(result) ==
  \/ result.isError
  \/ Len(result.content) = 0
  \/ ParseThrows(JoinText(result.content))

\* an ontoolresult that leaves the sliders where they are
OnToolResult_Stale(result) ==
  /\ impl = "dashboard"
  /\ toolResults < MaxToolResults
  /\ toolResults' = toolResults + 1
  /\ IF FailedResult(result)
     THEN /\ UNCHANGED <<data, dataCall>>
          /\ chart' = IF loading THEN Render(chart, data, FALSE, dark) ELSE chart
     ELSE /\ data' = JSONParse(JoinText(result.content))
          /\ dataCall' = 0
          /\ chart' = Render(chart, data', FALSE, dark)
  /\ loading' = FALSE
  /\ failure' = (failure \/ FailedResult(result))
  /\ UNCHANGED <<serverVars, impl, inputs, debounceTimeoutRef, timers, nextTimerId,
                 calls, dark, state, widgetData, ack, lastContext, teardown, burst>>

\* app.ontoolresult
OnToolResult(result) ==
  /\ impl = "dashboard"
  /\ toolResults < MaxToolResults
  /\ toolResults' = toolResults + 1
  /\ IF result.isError \/ Len(result.content) = 0
     THEN /\ loading' = FALSE
          /\ UNCHANGED <<data, inputs, dataCall>>
          /\ chart' = IF loading THEN Render(chart, data, FALSE, dark) ELSE chart
     ELSE LET text == JoinText(result.content)
          IN  IF ParseThrows(text)
              THEN /\ loading' = FALSE
                   /\ UNCHANGED <<data, inputs, dataCall>>
                   /\ chart' = IF loading THEN Render(chart, data, FALSE, dark)
                               ELSE chart
              ELSE /\ data' = JSONParse(text)
                   /\ inputs' = JSONParse(text).inputs
                   /\ loading' = FALSE
                   /\ dataCall' = 0
                   /\ chart' = Render(chart, data', FALSE, dark)
  /\ failure' = (failure \/ FailedResult(result))
  /\ UNCHANGED <<serverVars, impl, debounceTimeoutRef, timers, nextTimerId, calls, dark,
                 state, widgetData, ack, lastContext, teardown, burst>>

\* a clearTimeout that cancels nothing
ClearTimeout_NoOp(ts, id) == ts

\* clearTimeout(id)
ClearTimeout(ts, id) == {t \in ts : t.id # id}

\* a handleSliderChange that leaves the previous timer armed
ClearPrevious_Forgotten(ts, ref) == ts

\* handleSliderChange: if (debounceTimeoutRef.current) clearTimeout(...)
ClearPrevious(ts, ref) == IF ref # 0 THEN ClearTimeout(ts, ref) ELSE ts

\* an onteardown that leaves the pending timer armed
ClearPending_Forgotten(ts, ref) == ts

\* onteardown: if (debounceTimeoutRef.current) clearTimeout(...)
ClearPending(ts, ref) == IF ref # 0 THEN ClearTimeout(ts, ref) ELSE ts

\* a handleSliderChange that calls the tool at once, without a timer
HandleSliderChange_Eager(key, value) ==
  /\ impl = "dashboard"
  /\ ShowsResult(data, loading)
  /\ nextTimerId <= MaxEdits
  /\ value # inputs[key]
  /\ inputs' = [inputs EXCEPT ![key] = value]
  /\ loading' = TRUE
  /\ calls' = calls \cup {[id |-> nextTimerId, args |-> inputs', edits |-> 1]}
  /\ nextTimerId' = nextTimerId + 1
  /\ chart' = Render(chart, data, TRUE, dark)
  /\ failure' = FALSE
  /\ UNCHANGED <<serverVars, impl, data, timers, debounceTimeoutRef, burst, dark, state,
                 widgetData, ack, toolResults, lastContext, teardown, dataCall>>

\* handleSliderChange, reached from the onChange of a slider of the result
\* branch
HandleSliderChange(key, value) ==
  /\ impl = "dashboard"
  /\ ShowsResult(data, loading)
  /\ nextTimerId <= MaxEdits
  /\ value # inputs[key]
  /\ LET newInputs == [inputs EXCEPT ![key] = value]
         cleared == ClearPrevious(timers, debounceTimeoutRef)
     IN  /\ inputs' = newInputs
         /\ timers' = cleared \cup
                        {[id |-> nextTimerId, args |-> newInputs, age |-> 0]}
         /\ debounceTimeoutRef' = nextTimerId
         /\ burst' = [n |-> IF timers = {} THEN 1 ELSE burst.n + 1,
                      inputs |-> newInputs]
  /\ nextTimerId' = nextTimerId + 1
  /\ chart' = Render(chart, data, loading, dark)
  /\ failure' = FALSE
  /\ UNCHANGED <<serverVars, impl, data, loading, calls, dark, state, widgetData, ack,
                 toolResults, lastContext, teardown, dataCall>>

\* time passes: every active timer ages
Tick ==
  /\ \E t \in timers : t.age < DebounceDelay
  /\ timers' = {[t EXCEPT !.age = IF t.age + TickMs > DebounceDelay
                                  THEN DebounceDelay ELSE t.age + TickMs]
                : t \in timers}
  /\ UNCHANGED <<serverVars, failure, impl, data, loading, inputs, debounceTimeoutRef,
                 chart, nextTimerId, calls, dark, state, widgetData, ack, toolResults,
                 lastContext, teardown, dataCall, burst>>

\* a calculateRoi that calls the tool without setLoading(true)
TimerFires_NoLoading(t) ==
  /\ impl = "dashboard"
  /\ t \in timers
  /\ t.age >= DebounceDelay
  /\ timers' = timers \ {t}
  /\ calls' = calls \cup {[id |-> t.id, args |-> t.args, edits |-> burst.n]}
  /\ burst' = [n |-> 0, inputs |-> Null]
  /\ UNCHANGED <<serverVars, failure, impl, data, loading, inputs, chart,
                 debounceTimeoutRef, nextTimerId, dark, state, widgetData, ack,
                 toolResults, lastContext, teardown, dataCall>>

\* the timer's callback, () => calculateRoi(newInputs), up to the await:
\* setLoading(true) and app.callServerTool
TimerFires(t) ==
  /\ impl = "dashboard"
  /\ t \in timers
  /\ t.age >= DebounceDelay
  /\ timers' = timers \ {t}
  /\ loading' = TRUE
  /\ calls' = calls \cup {[id |-> t.id, args |-> t.args, edits |-> burst.n]}
  /\ chart' = IF loading THEN chart ELSE Render(chart, data, TRUE, dark)
  /\ burst' = [n |-> 0, inputs |-> Null]
  /\ UNCHANGED <<serverVars, failure, impl, data, inputs, debounceTimeoutRef,
                 nextTimerId, dark, state, widgetData, ack, toolResults, lastContext, teardown,
                 dataCall>>

\* what a call can resolve with: the handler's answer for its arguments, an
\* error result, or a rejection of the promise
Outcomes(c) ==
  {[rejected |-> FALSE, result |-> SuccessResult(c.args)],
   [rejected |-> FALSE, result |-> ErrorResult],
   [rejected |-> TRUE, result |-> EmptyResult]}

\* does the try block of calculateRoi throw: the await, content![0].text or
\* JSON.parse
CallThrows(outcome) ==
  \/ outcome.rejected
  \/ Len(outcome.result.content) = 0
  \/ ParseThrows(outcome.result.content[1].text)

\* a calculateRoi that takes the metrics of the response and keeps the chart
\* data it has
CallResolves_Merging(c, outcome) ==
  /\ impl = "dashboard"
  /\ c \in calls
  /\ calls' = calls \ {c}
  /\ IF CallThrows(outcome)
     THEN /\ UNCHANGED <<data, dataCall>>
     ELSE /\ data' = IF data = Null
                      THEN JSONParse(outcome.result.content[1].text)
                      ELSE [data EXCEPT !.metrics =
                              JSONParse(outcome.result.content[1].text).metrics]
          /\ dataCall' = c.id
  /\ loading' = FALSE
  /\ chart' = IF CallThrows(outcome) /\ ~loading THEN chart
              ELSE Render(chart, data', FALSE, dark)
  /\ failure' = (failure \/ CallThrows(outcome))
  /\ UNCHANGED <<serverVars, impl, inputs, debounceTimeoutRef, timers, nextTimerId, dark,
                 state, widgetData, ack, toolResults, lastContext, teardown,
                 burst>>

\* calculateRoi after the await: try, catch and finally
CallResolves(c, outcome) ==
  /\ impl = "dashboard"
  /\ c \in calls
  /\ calls' = calls \ {c}
  /\ IF CallThrows(outcome)
     THEN /\ UNCHANGED <<data, dataCall>>
     ELSE /\ data' = JSONParse(outcome.result.content[1].text)
          /\ dataCall' = c.id
  /\ loading' = FALSE
  /\ chart' = IF CallThrows(outcome) /\ ~loading THEN chart
              ELSE Render(chart, data', FALSE, dark)
  /\ failure' = (failure \/ CallThrows(outcome))
  /\ UNCHANGED <<serverVars, impl, inputs, debounceTimeoutRef, timers, nextTimerId, dark,
                 state, widgetData, ack, toolResults, lastContext, teardown,
                 burst>>

\* an onerror that calls the tool again with the current inputs
OnError_Retrying ==
  /\ impl = "dashboard"
  /\ loading' = TRUE
  /\ calls' = calls \cup {[id |-> 0, args |-> inputs, edits |-> 0]}
  /\ chart' = IF loading THEN chart ELSE Render(chart, data, TRUE, dark)
  /\ failure' = TRUE
  /\ UNCHANGED <<serverVars, impl, data, inputs, debounceTimeoutRef, timers, nextTimerId,
                 dark, state, widgetData, ack, toolResults, lastContext,
                 teardown, dataCall, burst>>

\* app.onerror
OnError ==
  /\ impl = "dashboard"
  /\ loading' = FALSE
  /\ chart' = IF loading THEN Render(chart, data, FALSE, dark) ELSE chart
  /\ failure' = TRUE
  /\ UNCHANGED <<serverVars, impl, data, inputs, debounceTimeoutRef, timers, nextTimerId,
                 calls, dark, state, widgetData, ack, toolResults, lastContext,
                 teardown, dataCall, burst>>

\* the data the handlers of onAppCreated close over: useApp runs onAppCreated
\* once, in the first render, where data is its initial null
CapturedData == Null

\* a handler that removes the class whatever the theme
ToggleDark_Stuck(context, dk) == FALSE

\* classList.toggle("dark", context.theme === "dark"), under if (context.theme)
ToggleDark(context, dk) ==
  IF context.theme # "absent" THEN context.theme = "dark" ELSE dk

\* an onhostcontextchanged that starts over: it drops the armed timer and
\* shows "Calculating..."
OnHostContextChanged_Restarting(context) ==
  /\ impl = "dashboard"
  /\ dark' = ToggleDark(context, dark)
  /\ timers' = {}
  /\ loading' = TRUE
  /\ chart' = Render(chart, data, TRUE, dark')
  /\ lastContext' = [theme |-> context.theme, duringCall |-> calls # {}]
  /\ UNCHANGED <<serverVars, failure, impl, data, inputs, debounceTimeoutRef,
                 nextTimerId, calls, state, widgetData, ack, toolResults,
                 teardown, dataCall, burst>>

\* app.onhostcontextchanged
OnHostContextChanged(context) ==
  /\ impl = "dashboard"
  /\ IF context.theme # "absent"
     THEN /\ dark' = ToggleDark(context, dark)
          /\ chart' = IF chart # Null /\ CapturedData # Null
                      THEN [chart EXCEPT !.destroyed = TRUE]
                      ELSE chart
     ELSE UNCHANGED <<dark, chart>>
  /\ lastContext' = [theme |-> context.theme, duringCall |-> calls # {}]
  /\ UNCHANGED <<serverVars, failure, impl, data, loading, inputs, debounceTimeoutRef,
                 timers, nextTimerId, calls, state, widgetData, ack, toolResults,
                 teardown, dataCall, burst>>

\* app.onteardown
OnTeardown ==
  /\ impl = "dashboard"
  /\ teardown = Null
  /\ timers' = ClearPending(timers, debounceTimeoutRef)
  /\ chart' = IF chart # Null THEN [chart EXCEPT !.destroyed = TRUE] ELSE chart
  /\ ack' = [empty |-> TRUE]
  /\ teardown' = [timer |-> timers # {}, calls |-> {c.id : c \in calls}]
  /\ burst' = [n |-> 0, inputs |-> Null]
  /\ UNCHANGED <<serverVars, failure, impl, data, loading, inputs, debounceTimeoutRef,
                 nextTimerId, calls, dark, state, widgetData, toolResults, lastContext,
                 dataCall>>

(***************************************************************************)
(* Scaffold widget handlers.                                               *)
(***************************************************************************)
\* the variant of the Widget State the scaffold widget shows
WidgetVariant ==
  CASE state.status = "idle"    -> "Idle"
    [] state.status = "loading" -> "Loading"
    [] state.status = "success" -> "Success"
    [] state.status = "error"   -> "Error"

\* appInstance.ontoolinput
WidgetOnToolInput ==
  /\ impl = "template"
  /\ toolResults < MaxToolResults
  /\ state' = [status |-> "loading"]
  /\ UNCHANGED <<serverVars, failure, impl, dashVars, dark, widgetData, ack, toolResults,
                 lastContext, teardown>>

\* appInstance.ontoolresult
WidgetOnToolResult(result) ==
  /\ impl = "template"
  /\ toolResults < MaxToolResults
  /\ toolResults' = toolResults + 1
  /\ IF result.structuredContent # Null
     THEN /\ widgetData' = result.structuredContent
          /\ state' = [status |-> "success", data |-> result.structuredContent]
     ELSE IF Len(result.content) = 0
     THEN UNCHANGED <<widgetData, state>>
     ELSE IF ParseThrows(result.content[1].text)
     THEN /\ state' = [status |-> "error", error |-> "Failed to parse result"]
          /\ UNCHANGED widgetData
     ELSE /\ widgetData' = JSONParse(result.content[1].text)
          /\ state' = [status |-> "success",
                       data |-> JSONParse(result.content[1].text)]
  /\ failure' = (failure \/ FailedResult(result))
  /\ UNCHANGED <<serverVars, impl, dashVars, dark, ack, lastContext, teardown>>

\* appInstance.onerror
WidgetOnError ==
  /\ impl = "template"
  /\ state' = [status |-> "error", error |-> "transport"]
  /\ failure' = TRUE
  /\ UNCHANGED <<serverVars, impl, dashVars, dark, widgetData, ack, toolResults,
                 lastContext, teardown>>

\* appInstance.onhostcontextchanged
WidgetOnHostContextChanged(context) ==
  /\ impl = "template"
  /\ dark' = (context.theme = "dark")
  /\ lastContext' = [theme |-> context.theme, duringCall |-> FALSE]
  /\ UNCHANGED <<serverVars, failure, impl, dashVars, state, widgetData, ack,
                 toolResults, teardown>>

\* appInstance.onteardown
WidgetOnTeardown ==
  /\ impl = "template"
  /\ teardown = Null
  /\ ack' = [empty |-> TRUE]
  /\ teardown' = [timer |-> FALSE, calls |-> {}]
  /\ UNCHANGED <<serverVars, failure, impl, dashVars, dark, state, widgetData, toolResults,
                 lastContext>>

\* a "Try Again" that goes to idle and keeps the message
WidgetReset_KeepsMessage ==
  /\ impl = "template"
  /\ state.status = "error"
  /\ state' = [status |-> "idle", error |-> state.error]
  /\ failure' = FALSE
  /\ UNCHANGED <<serverVars, impl, dashVars, dark, widgetData, ack, toolResults,
                 lastContext, teardown>>

\* the "Try Again" button of the error view
WidgetReset ==
  /\ impl = "template"
  /\ state.status = "error"
  /\ state' = [status |-> "idle"]
  /\ failure' = FALSE
  /\ UNCHANGED <<serverVars, impl, dashVars, dark, widgetData, ack, toolResults,
                 lastContext, teardown>>

Next ==
  \/ \E result \in ToolResults : OnToolResult(result)
  \/ \E key \in Keys : \E value \in SliderValues(key) :
       HandleSliderChange(key, value)
  \/ Tick
  \/ \E t \in timers : TimerFires(t)
  \/ \E c \in calls : \E outcome \in Outcomes(c) : CallResolves(c, outcome)
  \/ OnError
  \/ \E context \in HostContexts : OnHostContextChanged(context)
  \/ OnTeardown
  \/ WidgetOnToolInput
  \/ \E result \in ToolResults : WidgetOnToolResult(result)
  \/ WidgetOnError
  \/ \E context \in HostContexts : WidgetOnHostContextChanged(context)
  \/ WidgetOnTeardown
  \/ WidgetReset

Spec == Init /\ [][Next]_vars

(***************************************************************************)
(* The server: the calculate_campaign_roi tool of a session.               *)
(***************************************************************************)
\* the authentication contexts of a session: no props, props without a user
\* id, props of an authenticated user
Identities == {Null, [userId |-> ""], [userId |-> "user-1"]}

\* the message of the error thrown for a missing user id
AuthMessage == "User ID not found in authentication context"

\* a check that lets every context pass
VerifyUser_Forgotten(pr) == TRUE

\* the negation of !this.props?.userId
VerifyUser(pr) == pr # Null /\ pr.userId # ""

\* the handler of calculate_campaign_roi for the context pr and the
\* validated arguments p: what it throws or returns, and whether the
\* calculation ran
Handler(pr, p) ==
  IF ~VerifyUser(pr)
  THEN [kind |-> "thrown", message |-> AuthMessage, computed |-> FALSE,
        response |-> ErrorResult]
  ELSE [kind |-> "returned", message |-> "", computed |-> TRUE,
        response |-> SuccessResult(p)]

\* a tools/call request: arguments that fail the inputSchema are rejected
\* before the handler runs
CallTool(pr, p) ==
  IF ~Valid(p)
  THEN [kind |-> "rejected", message |-> "Invalid arguments",
        computed |-> FALSE, response |-> ErrorResult]
  ELSE Handler(pr, p)

\* a server that answers a call with the record it computed for the call
\* before
Invoke_Cached(p) ==
  /\ Len(handled) < MaxCalls
  /\ handled' = Append(handled,
       [args |-> p,
        outcome |-> IF handled # <<>> /\ Valid(p) /\ VerifyUser(props)
                    THEN CallTool(props, handled[Len(handled)].args)
                    ELSE CallTool(props, p)])
  /\ UNCHANGED <<props, frameVars>>

\* one call of the tool, from the request to its outcome
Invoke(p) ==
  /\ Len(handled) < MaxCalls
  /\ handled' = Append(handled, [args |-> p, outcome |-> CallTool(props, p)])
  /\ UNCHANGED <<props, frameVars>>

\* a session: the context is fixed when the agent is created
ServerInit ==
  /\ FrameInit
  /\ impl = "dashboard"
  /\ props \in Identities
  /\ handled = <<>>

ServerNext == \E p \in SessionArguments : Invoke(p)

ServerSpec == ServerInit /\ [][ServerNext]_vars

\* the first call of a session, with any arguments
CalcNext == \E p \in CallArguments : handled = <<>> /\ Invoke(p)

CalcSpec == ServerInit /\ [][CalcNext]_vars

\* monthly budgets that are no whole numbers, in hundredths (30 for 0.3),
\* with a whole one and one the schema rejects
BudgetHundredths == {0, 30, 50, 225, 450, 100025, 300000}

\* 2^1023, a budget whose double is no finite number
LargestPower == [neg |-> FALSE, sig |-> MinSig, exp |-> MaxExponent]

\* 2^-600, a small positive number
SmallPower == [neg |-> FALSE, sig |-> MinSig, exp |-> -600 - (Precision - 1)]

\* arguments given as numbers: z.number() admits every number, and
\* positive() every number above 0, however large or small
NumberArguments ==
  {[Args(p) EXCEPT !.monthlyBudget = b] :
     p \in {q \in CallArguments :
              q.monthlyBudget = 1 /\ q.conversionRatePercent \in {0, 5, 100}},
     b \in {FromHundredths(k) : k \in BudgetHundredths} \cup {LargestPower}}
  \cup
  {[Args(p) EXCEPT !.conversionRatePercent = r, !.averageOrderValue = SmallPower] :
     p \in {q \in CallArguments :
              q.monthlyBudget = 3000 /\ q.conversionRatePercent = 5
              /\ q.averageOrderValue = 10},
     r \in {FromInt(5), SmallPower}}

\* a tools/call request whose arguments are the numbers a: the inputSchema,
\* the check of the user id, steps 1 to 8 and the success return
CallToolWith(pr, a) ==
  IF ~ValidArgs(a)
  THEN [kind |-> "rejected", message |-> "Invalid arguments",
        computed |-> FALSE, response |-> ErrorResult]
  ELSE IF ~VerifyUser(pr)
  THEN [kind |-> "thrown", message |-> AuthMessage, computed |-> FALSE,
        response |-> ErrorResult]
  ELSE [kind |-> "returned", message |-> "", computed |-> TRUE,
        response |-> Packaged(Calculation(a, a))]

\* one call of the tool with the numbers a
InvokeWith(a) ==
  /\ Len(handled) < MaxCalls
  /\ handled' = Append(handled, [args |-> a, outcome |-> CallToolWith(props, a)])
  /\ UNCHANGED <<props, frameVars>>

\* the first call of a session, with numbers that need not be whole
NumberNext == \E a \in NumberArguments : handled = <<>> /\ InvokeWith(a)

NumberSpec == ServerInit /\ [][NumberNext]_vars

(***************************************************************************)
(* Capability negotiation: hasUISupport.  A JavaScript value is Null (null *)
(* or undefined), a boolean, a number, a string, an array or an object     *)
(* with its members.                                                       *)
(***************************************************************************)
UI_MIME_TYPE == "text/html;profile=mcp-app"
UI_EXTENSION_ID == "io.modelcontextprotocol/ui"

\* !value is false
Truthy(value) ==
  value \notin {Null, [boolean |-> FALSE], [number |-> 0], [string |-> ""]}

\* typeof value
TypeOf(value) ==
  IF value = Null \/ "object" \in DOMAIN value \/ "array" \in DOMAIN value
  THEN "object"
  ELSE CHOOSE type \in {"boolean", "number", "string"} : type \in DOMAIN value

\* what reading a member of null or undefined throws
TypeError == [thrown |-> "TypeError"]

\* value[key] for a key that is no index and no member of a prototype:
\* the member of an object that has it, undefined for another value
Get(value, key) ==
  IF value = Null THEN TypeError
  ELSE IF "object" \in DOMAIN value /\ key \in DOMAIN value.object
  THEN value.object[key]
  ELSE Null

\* Array.isArray(value)
IsArray(value) == "array" \in DOMAIN value

\* an includes that looks at the first element only
Includes_First(array, element) ==
  array.array # <<>> /\ array.array[1] = element

\* array.includes(element)
Includes(array, element) ==
  \E i \in DOMAIN array.array : array.array[i] = element

\* hasUISupport(clientCapabilities): what it returns, or that it threw
HasUISupport(clientCapabilities) ==
  LET extensions == Get(clientCapabilities, "extensions")
      uiExtension == Get(extensions, UI_EXTENSION_ID)
      mimeTypes == Get(uiExtension, "mimeTypes")
      Return(value) == [threw |-> FALSE, value |-> value]
      Throw == [threw |-> TRUE, value |-> FALSE]
  IN  IF ~Truthy(clientCapabilities) \/ TypeOf(clientCapabilities) # "object"
      THEN Return(FALSE)
      ELSE IF extensions = TypeError THEN Throw
      ELSE IF ~Truthy(extensions) THEN Return(FALSE)
      ELSE IF uiExtension = TypeError THEN Throw
      ELSE IF ~Truthy(uiExtension) THEN Return(FALSE)
      ELSE IF mimeTypes = TypeError THEN Throw
      ELSE IF ~IsArray(mimeTypes) THEN Return(FALSE)
      ELSE Return(Includes(mimeTypes, [string |-> UI_MIME_TYPE]))

\* values that are no objects with members: null, primitive values that are
\* false and that are true, and arrays
Plain ==
  {Null, [boolean |-> FALSE], [boolean |-> TRUE], [number |-> 0],
   [number |-> 1], [string |-> ""], [string |-> UI_MIME_TYPE],
   [array |-> <<>>], [array |-> <<[string |-> UI_MIME_TYPE]>>],
   [object |-> <<>>]}

\* the values of mimeTypes: the arrays of up to two elements, and values
\* that are no arrays
MimeTypeValues ==
  Plain \cup
  {[array |-> <<x, y>>] :
     x, y \in {[string |-> UI_MIME_TYPE], [string |-> "text/html"],
               [number |-> 1], Null}}

\* the values of extensions["io.modelcontextprotocol/ui"]
UiExtensionValues ==
  Plain \cup {[object |-> [mimeTypes |-> m]] : m \in MimeTypeValues}
        \cup {[object |-> [mimeType |-> [array |-> <<[string |-> UI_MIME_TYPE]>>]]]}

\* the values of clientCapabilities.extensions
ExtensionsValues ==
  Plain \cup {[object |-> (UI_EXTENSION_ID :> u)] : u \in UiExtensionValues}
        \cup {[object |-> ("io.modelcontextprotocol/other" :>
                             [object |-> [mimeTypes |->
                                [array |-> <<[string |-> UI_MIME_TYPE]>>]]])]}

\* the client capabilities hasUISupport is called with: unknown
ClientCapabilities ==
  Plain \cup {[object |-> [extensions |-> e]] : e \in ExtensionsValues}
        \cup {[object |-> [experimental |-> [object |-> <<>>]]]}

\* one call of hasUISupport
CheckCapabilities(clientCapabilities) ==
  /\ handled = <<>>
  /\ handled' = <<[args |-> clientCapabilities,
                   outcome |-> HasUISupport(clientCapabilities)]>>
  /\ UNCHANGED <<props, frameVars>>

CapabilityNext == \E caps \in ClientCapabilities : CheckCapabilities(caps)

CapabilitySpec == ServerInit /\ [][CapabilityNext]_vars

(***************************************************************************)
(* Properties.                                                             *)
(***************************************************************************)
\* the variant of the Widget State of the program in the frame
Variant == IF impl = "dashboard" THEN DashboardVariant ELSE WidgetVariant

\* the widget shows a failure: the scaffold widget's error view, or the
\* dashboard's "No data available", the only view of the dashboard that a
\* failure alone leads to
ShowsFailure ==
  \/ Variant = "Error"
  \/ impl = "dashboard" /\ DashboardVariant = "NoData"

\* the calls issued by a step
Issued == calls' \ calls

\* C1: Debounce coalescing.  N >= 1 edits, each made while the timer of the
\* previous one is still armed (so less than the debounce delay after it),
\* stand for one timer; that timer carries the Parameter Set of the last
\* edit; no call is issued while the timer is younger than the delay; and
\* when the timer runs, exactly one call is issued, with the Parameter Set of
\* the last edit, and no timer is left to issue another.
C1_OneTimerOfLastEdit ==
  /\ Cardinality(timers) <= 1
  /\ \A t \in timers :
       /\ t.id = debounceTimeoutRef
       /\ burst.n >= 1
       /\ t.args = burst.inputs

C1_DebounceCoalescing ==
  /\ []C1_OneTimerOfLastEdit
  /\ [][Issued # {} =>
          \E t \in timers :
            /\ t.age >= DebounceDelay
            /\ burst.n >= 1
            /\ Issued = {[id |-> t.id, args |-> burst.inputs, edits |-> burst.n]}
            /\ timers' = {}]_vars
  /\ [][(burst.n >= 1 /\ burst'.n = 0 /\ teardown' = teardown) =>
          Cardinality(Issued) = 1]_vars

\* C1 witness: a call is unresolved that stands for a burst of two edits
C1_Witness == \E c \in calls : c.edits >= 2 /\ timers = {}

\* C2: Last-request-wins.  When the response of a call arrives after the
\* response of a call issued later has been applied, it is discarded: the
\* displayed Result Record stays the one of the later call.
C2_LastRequestWins ==
  [][\A c \in calls :
       (calls' = calls \ {c} /\ c.id < dataCall) =>
         (data' = data /\ dataCall' = dataCall)]_vars

\* C3: Teardown cancels the armed debounce timer, which never runs, and no
\* call is issued at any point after the teardown.
C3_NoCallAfterTeardown ==
  [][/\ (teardown = Null /\ teardown' # Null) => timers' = {}
     /\ teardown # Null => Issued = {}]_vars

\* C4: The response of a call that was unresolved when onteardown ran is
\* dropped: it changes neither the displayed Result Record nor the loading
\* flag.
C4_ResponseDroppedAfterTeardown ==
  [][\A c \in calls :
       (teardown # Null /\ c.id \in teardown.calls /\ calls' = calls \ {c}) =>
         (data' = data /\ loading' = loading)]_vars

\* the teardown handler of the program in the frame
Teardown == OnTeardown \/ WidgetOnTeardown

\* C5: In every widget state the teardown handler can run, and when it has
\* run the empty acknowledgment is returned, no debounce timer is armed and
\* the chart, if one is mounted, has been destroyed; the acknowledgment is
\* returned by no other step.
C5_TeardownAcknowledged ==
  /\ [](teardown = Null => ENABLED Teardown)
  /\ [](teardown = Null <=> ack = Null)
  /\ [][(teardown = Null /\ teardown' # Null) =>
          /\ ack' = [empty |-> TRUE]
          /\ timers' = {}
          /\ (chart' # Null => chart'.destroyed)]_vars

\* C5 witness: the teardown has run while a debounce timer was armed, a call
\* was unresolved and a chart was mounted
C5_Witness ==
  /\ teardown # Null
  /\ teardown.timer
  /\ teardown.calls # {}
  /\ ack = [empty |-> TRUE]
  /\ chart # Null
  /\ chart.destroyed
  /\ timers = {}

\* C6: The presence of the "dark" class equals the theme of the host-context
\* notification received last, and a notification can be handled in every
\* state, also while a call is unresolved or a debounce timer is armed.
C6_ThemeFollowsContext ==
  /\ (lastContext # Null /\ lastContext.theme # "absent") =>
       dark = (lastContext.theme = "dark")
  /\ \A context \in HostContexts :
       ENABLED (OnHostContextChanged(context) \/
                WidgetOnHostContextChanged(context))

\* C6 witness: the dark theme was applied while a call was unresolved, and
\* the call is still unresolved
C6_Witness ==
  /\ lastContext # Null
  /\ lastContext.duringCall
  /\ lastContext.theme = "dark"
  /\ dark
  /\ calls # {}

\* C7: A chart created under one theme is never displayed under the other:
\* the mounted chart carries the theme of the document.
C7_ChartReleasedOnThemeChange ==
  (chart # Null /\ ~chart.destroyed) => chart.theme = ThemeOf(dark)

\* C8: When a call of the widget fails (the promise rejects, or the response
\* has no content or no parsable text), the widget leaves Loading for the
\* Error state and does not show a Result Record.
C8_FailedCallShowsError ==
  [][\A c \in calls : \A outcome \in Outcomes(c) :
       (CallResolves(c, outcome) /\ CallThrows(outcome)) =>
         (ShowsFailure' /\ Variant' # "Success")]_vars

\* C9: When the initial result is a failure or cannot be parsed, the widget
\* transitions to the Error state.
C9_FailedInitialResultShowsError ==
  [][\A result \in ToolResults :
       ((OnToolResult(result) \/ WidgetOnToolResult(result))
        /\ FailedResult(result)) => ShowsFailure']_vars

\* C10: Whenever the transport error handler runs, the widget transitions
\* to its Error state.
C10_TransportErrorShowsError ==
  [][(OnError \/ WidgetOnError) => ShowsFailure']_vars

\* a user action: a parameter edit, or the reset of the error view
UserAction ==
  \/ \E key \in Keys : \E value \in SliderValues(key) :
       HandleSliderChange(key, value)
  \/ WidgetReset

\* a step that handles a failure: a failed initial result, a failed call, a
\* transport error
HandlesFailure ==
  \/ \E result \in ToolResults :
       (OnToolResult(result) \/ WidgetOnToolResult(result))
       /\ FailedResult(result)
  \/ \E c \in calls : \E outcome \in Outcomes(c) :
       CallResolves(c, outcome) /\ CallThrows(outcome)
  \/ OnError
  \/ WidgetOnError

\* the timers armed by a step
Armed == {t \in timers' : t.id \notin {u.id : u \in timers}}

\* C11 as stated: from a failure until the next user action, no step issues
\* a call.
C11_NoCallAfterFailure == [][failure => Issued = {}]_vars

\* C11: No automatic retry.  A step that handles a failure issues no call
\* and arms no timer; a timer is armed by a parameter edit only; a call is
\* issued only by the run of a debounce timer, with the Parameter Set that
\* the edit gave it; so after a failure with no timer armed no call is issued
\* until a user action occurs.
C11_NoAutomaticRetry ==
  /\ [][HandlesFailure => (Issued = {} /\ Armed = {} /\ failure')]_vars
  /\ [][Armed # {} =>
          (\E key \in Keys : \E value \in SliderValues(key) :
             HandleSliderChange(key, value))]_vars
  /\ [][UserAction => ~failure']_vars
  /\ [][Issued # {} =>
          \E t \in timers :
            /\ t.age >= DebounceDelay
            /\ Issued = {[id |-> t.id, args |-> t.args, edits |-> burst.n]}]_vars
  /\ [][(failure /\ timers = {}) => Issued = {}]_vars

\* C11 witness: a failure was handled while the timer of an earlier edit was
\* armed; the timer is due, and its run is the only call that can follow
C11_Witness ==
  /\ failure
  /\ \E t \in timers : t.age >= DebounceDelay /\ t.id = debounceTimeoutRef
  /\ calls = {}
  /\ ~loading
  /\ data # Null

\* C12: In every reachable state the widget holds exactly one of Idle,
\* Loading, Success(Result Record), Error(message): the dashboard's pair of
\* data record and loading flag never holds Loading together with a record,
\* and the scaffold widget's status tag is one of the four, with a record
\* exactly in Success and a message exactly in Error.
C12_ExactlyOneVariant ==
  /\ impl = "dashboard" => ~(loading /\ data # Null)
  /\ impl = "template" =>
       /\ state.status \in {"idle", "loading", "success", "error"}
       /\ state.status = "success" <=> "data" \in DOMAIN state
       /\ state.status = "error" <=> "error" \in DOMAIN state

\* the calls of the session that have an outcome
Completions == {handled[i] : i \in DOMAIN handled}

\* the calls the handler returned a result object for
Returned == {h \in Completions : h.outcome.kind = "returned"}

\* the Result Record of a returned call
RecordOf(h) == h.outcome.response.structuredContent

\* the response carries a text content item
HasText(response) ==
  \E i \in DOMAIN response.content : response.content[i].type = "text"

\* the context of the session holds no user id
IdentityAbsent == props = Null \/ props.userId = ""

\* C13: Every response of a call that reached the handler, on the success
\* path and on the error path, carries a text content item and a
\* structuredContent payload.
C13_BothChannels ==
  \A h \in Completions :
    h.outcome.kind # "rejected" =>
      /\ HasText(h.outcome.response)
      /\ h.outcome.response.structuredContent # Null

\* C14: When the identity is absent, a call that reaches the handler fails
\* with the authentication error, the calculation does not run, the response
\* holds no Result Record (neither as structuredContent nor as JSON text),
\* and the call has this one outcome: the handler is not run again for it.
C14_AuthErrorBeforeComputation ==
  /\ [](\A h \in Completions :
          (IdentityAbsent /\ Valid(h.args)) =>
            /\ h.outcome.kind = "thrown"
            /\ h.outcome.message = AuthMessage
            /\ ~h.outcome.computed
            /\ h.outcome.response.isError
            /\ h.outcome.response.structuredContent = Null
            /\ ParseThrows(JoinText(h.outcome.response.content)))
  /\ [][/\ Len(handled') = Len(handled) + 1
        /\ SubSeq(handled', 1, Len(handled)) = handled]_vars

\* C14 witness: two calls with valid arguments have failed in a session
\* without identity
C14_Witness ==
  /\ IdentityAbsent
  /\ Len(handled) >= 2
  /\ \A i \in 1..2 : Valid(handled[i].args) /\ handled[i].outcome.kind = "thrown"

\* C15 as stated: profit = revenue - monthlyBudget and
\* roiPercent = 100 * profit / monthlyBudget, as numbers.
C15_RoiAsScaledQuotient ==
  \A h \in Returned :
    LET m == RecordOf(h).metrics
        monthlyBudget == FromInt(h.args.monthlyBudget)
    IN  /\ m.profit = Subtract(m.revenue, monthlyBudget)
        /\ m.roiPercent =
             Divide(Multiply(FromInt(100), m.profit), monthlyBudget)

\* C15: For every valid Parameter Set the returned metrics satisfy
\* profit = revenue - monthlyBudget and
\* roiPercent = (profit / monthlyBudget) * 100, each operator rounding its
\* result to a number.
C15_ProfitAndRoi ==
  \A h \in Returned :
    LET m == RecordOf(h).metrics
        monthlyBudget == FromInt(h.args.monthlyBudget)
    IN  /\ m.profit = Subtract(m.revenue, monthlyBudget)
        /\ m.roiPercent =
             Multiply(Divide(m.profit, monthlyBudget), FromInt(100))

\* C15 witness: a record whose roiPercent is not the number
\* 100 * profit / monthlyBudget
C15_Witness ==
  \E h \in Returned :
    LET m == RecordOf(h).metrics
    IN  /\ m.profit.neg
        /\ m.roiPercent # Divide(Multiply(FromInt(100), m.profit),
                                 FromInt(h.args.monthlyBudget))

DirectCall(h, budget) ==
  LET a == [Args(h.args) EXCEPT !.monthlyBudget = budget]
  IN  IF ValidArgs(a)
      THEN [kind |-> "returned", metrics |-> Metrics(a)]
      ELSE [kind |-> "rejected", metrics |-> Null]

C19_Scenario ==
  \A h \in Returned :
    h.args = [monthlyBudget |-> 10000, cpc |-> 250,
              conversionRatePercent |-> 5, averageOrderValue |-> 100] =>
      RecordOf(h).metrics =
        [clicks |-> FromInt(4000), conversions |-> FromInt(200),
         revenue |-> FromInt(20000), profit |-> FromInt(10000),
         roiPercent |-> FromInt(100), breakEvenBudget |-> FromInt(1)]

\* C19 witness: the call with these arguments has returned
C19_Witness ==
  \E h \in Returned :
    /\ h.args.monthlyBudget = 10000
    /\ h.args.cpc = 250
    /\ h.args.conversionRatePercent = 5
    /\ h.args.averageOrderValue = 100
    /\ RecordOf(h).metrics.clicks = FromInt(4000)

SmallerBudgets(budget) ==
  {b \in {Divide(budget, FromInt(2)), Subtract(budget, FromInt(1))} :
     Positive(b)}

\* C21: For every valid Parameter Set with conversionRatePercent > 0, the
\* call with monthlyBudget = breakEvenBudget (same cpc, rate, order value)
\* returns profit >= 0, and the call with a smaller positive budget returns
\* profit < 0.
C21_BreakEvenIsMinimum ==
  \A h \in Returned :
    h.args.conversionRatePercent > 0 =>
      LET breakEvenBudget == RecordOf(h).metrics.breakEvenBudget
          atBreakEven == DirectCall(h, breakEvenBudget)
      IN  /\ atBreakEven.kind = "returned"
          /\ NotNegative(atBreakEven.metrics.profit)
          /\ \A b \in SmallerBudgets(breakEvenBudget) :
               LET below == DirectCall(h, b)
               IN  /\ below.kind = "returned"
                   /\ ~NotNegative(below.metrics.profit)

\* is the number a a whole number
IsWhole(a) == MathFloor(a) = a

Displayed ==
  IF impl = "dashboard" THEN data
  ELSE IF state.status = "success" THEN state.data ELSE Null

\* C23: When the host delivers a successful, parsable initial result, the
\* widget is in Success after the step and displays the Result Record of
\* the result, the record its text denotes and its structuredContent holds;
\* and the dashboard's slider Parameter Set is the inputs of that record.
C23_InitialResultShown ==
  [][\A result \in ToolResults :
       ((OnToolResult(result) \/ WidgetOnToolResult(result))
        /\ ~FailedResult(result)) =>
         /\ Variant' = "Success"
         /\ Displayed' = JSONParse(JoinText(result.content))
         /\ Displayed' = result.structuredContent
         /\ impl = "dashboard" =>
              /\ inputs' = result.structuredContent.inputs
              /\ ~loading']_vars

\* C23 witness: the dashboard shows the record of the initial result, and
\* the sliders have left their first values for the record's inputs
C23_Witness ==
  /\ impl = "dashboard"
  /\ toolResults = 1
  /\ DashboardVariant = "Success"
  /\ dataCall = 0
  /\ data \in ResultRecords
  /\ inputs = data.inputs
  /\ inputs # DefaultInputs
  /\ timers = {} /\ calls = {}

\* C24: A parameter edit changes the one field of the slider Parameter Set,
\* cancels the timer of the previous edit and arms one new timer that holds
\* the new Parameter Set; it leaves the variant, the displayed Result Record
\* and the loading flag as they are and issues no call.
C24_EditOnlyArmsTimer ==
  [][\A key \in Keys : \A value \in SliderValues(key) :
       HandleSliderChange(key, value) =>
         /\ inputs' = [inputs EXCEPT ![key] = value]
         /\ inputs' # inputs
         /\ \E t \in timers' :
              /\ Armed = {t}
              /\ t.args = inputs'
              /\ t.age = 0
              /\ t.id = debounceTimeoutRef'
         /\ timers' \ Armed = {t \in timers : t.id # debounceTimeoutRef}
         /\ Variant' = Variant
         /\ Displayed' = Displayed
         /\ loading' = loading
         /\ calls' = calls
         /\ Issued = {}]_vars

\* C24 witness: a second edit has replaced the timer of the first one; the
\* record on display is still the one of the initial result and nothing was
\* called
C24_Witness ==
  /\ impl = "dashboard"
  /\ burst.n = 2
  /\ \E t \in timers : timers = {t} /\ t.age = 0 /\ t.args = inputs
  /\ DashboardVariant = "Success"
  /\ data.inputs # inputs
  /\ dataCall = 0
  /\ calls = {}

\* an edit of a slider
Edit ==
  \E key \in Keys : \E value \in SliderValues(key) :
    HandleSliderChange(key, value)

\* C25: In every reachable state at most one debounce timer is armed, and
\* it is the timer of the most recent edit; an edit leaves no timer armed
\* but its own; and the timer that fires is the one of the most recent edit.
C25_AtMostOneTimer ==
  /\ [](/\ Cardinality(timers) <= 1
        /\ \A t \in timers : t.id = nextTimerId - 1 /\ t.id = debounceTimeoutRef)
  /\ [][Edit => (Cardinality(timers') = 1 /\ timers' \cap timers = {}
                 /\ timers' = Armed)]_vars
  /\ [][\A t \in timers : TimerFires(t) =>
          (t.id = nextTimerId - 1 /\ timers' = {})]_vars

\* C25 witness: the second edit was made while the timer of the first was
\* armed; one timer is armed, the second one, and it is due
C25_Witness ==
  /\ burst.n = 2
  /\ Cardinality(timers) = 1
  /\ \A t \in timers : t.id = 2 /\ t.age >= DebounceDelay
  /\ calls = {}

\* C26: A timer armed by an edit made after the teardown was handled does
\* nothing when it fires: the loading flag stays as it is and no call is
\* issued.
C26_TimerAfterTeardownNoOp ==
  [][\A t \in timers :
       (TimerFires(t) /\ teardown # Null) =>
         (loading' = loading /\ Issued = {})]_vars

\* a step of a host-context handler
ContextChanged ==
  \E context \in HostContexts :
    OnHostContextChanged(context) \/ WidgetOnHostContextChanged(context)

\* C27: Handling a host-context notification leaves the variant of the
\* Widget State, the displayed Result Record, the loading flag, the slider
\* Parameter Set, the armed timer with its age and the unresolved calls as
\* they are; what it can change is the dark class.
C27_ContextChangeFrame ==
  [][ContextChanged =>
       /\ Variant' = Variant
       /\ Displayed' = Displayed
       /\ UNCHANGED <<data, loading, state, widgetData, inputs>>
       /\ UNCHANGED <<timers, debounceTimeoutRef, nextTimerId, calls>>
       /\ Issued = {} /\ Armed = {}]_vars

\* C27 witness: a notification with the dark theme was handled while a call
\* was unresolved; the call is still unresolved, the widget still shows
\* "Calculating..." over the record it had, and the class is set
C27_Witness ==
  /\ impl = "dashboard"
  /\ lastContext # Null
  /\ lastContext.theme = "dark"
  /\ lastContext.duringCall
  /\ dark
  /\ calls # {}
  /\ loading
  /\ data # Null

\* C28: The reset of the error view is taken in Error, leads to Idle and
\* leaves no error message in the state; and every step from Error to Idle
\* is a reset.
C28_ResetFromError ==
  /\ [][WidgetReset =>
          /\ Variant = "Error"
          /\ "error" \in DOMAIN state
          /\ Variant' = "Idle"
          /\ "error" \notin DOMAIN state']_vars
  /\ [][(Variant = "Error" /\ Variant' = "Idle") => WidgetReset]_vars

\* C28 witness: the scaffold widget is in Idle again after a result that it
\* could not parse and the reset of the error view
C28_Witness ==
  /\ impl = "template"
  /\ Variant = "Idle"
  /\ toolResults = 1
  /\ ~failure
  /\ DOMAIN state = {"status"}

\* the record of the response a step has received: of an initial result, or
\* of the call that resolves
Received ==
  {result.structuredContent : result \in
     {r \in ToolResults : OnToolResult(r) \/ WidgetOnToolResult(r)}}
  \cup {outcome.result.structuredContent : outcome \in
     UNION {{o \in Outcomes(c) : CallResolves(c, o)} : c \in calls}}

\* C29: In every reachable state the displayed record is absent or is, in
\* inputs, metrics and chartData, the one record the computation returns for
\* its inputs; and a step after which another record is displayed has put
\* the record of the response it has received in its place, whole.
C29_RecordReplacedWhole ==
  /\ [](Displayed # Null =>
          /\ Displayed \in ResultRecords
          /\ Displayed = ResultOf(Displayed.inputs))
  /\ [][(Displayed' # Displayed /\ Displayed' # Null) =>
          Displayed' \in Received]_vars

\* C29 witness: the record of the initial result was replaced by the record
\* of the call of the first edit, which is on display
C29_Witness ==
  /\ impl = "dashboard"
  /\ dataCall = 1
  /\ DashboardVariant = "Success"
  /\ data = ResultOf(data.inputs)
  /\ toolResults = 1

\* the record a client reads from the text content of a response
ParsedText(response) == JSONParse(JoinText(response.content))

\* C30: For every call that returned, the text content of the response
\* parses, and the record parsed from it, which is the record the widget
\* puts on display, equals the response's structuredContent, the Result
\* Record the handler computed.
C30_TextRoundTrip ==
  \A h \in Returned :
    /\ ~ParseThrows(JoinText(h.outcome.response.content))
    /\ ParsedText(h.outcome.response) = RecordOf(h)
    /\ RecordOf(h) = Calculation(h.args, h.args)


\* the calls that resolve in a step
Resolved == calls \ calls'

\* C31: when the debounce timer fires, the dashboard is in Loading as its call
\* is issued, and every resolution of a call, with a result or with a failure,
\* leaves the dashboard out of Loading.
C31_LoadingBracketsCall ==
  [][/\ (\E t \in timers : TimerFires(t)) => (loading' /\ Issued # {})
     /\ Issued # {} => loading'
     /\ Resolved # {} => ~loading']_vars

\* a call has resolved with a record and the call of a later timer, which no
\* teardown has cleared, has resolved with a failure; the dashboard is out of
\* Loading with nothing pending
C31_Witness ==
  /\ impl = "dashboard"
  /\ dataCall # 0
  /\ failure
  /\ nextTimerId > dataCall + 1
  /\ teardown = Null
  /\ calls = {}
  /\ timers = {}
  /\ ~loading

\* the divisors of the divisions of steps 1 to 7 for the arguments a: cpc
\* (steps 1 and 7), 100 (steps 2 and 6), monthlyBudget (step 5), 9 (step 7)
\* and, where the guard of step 6 lets the division happen,
\* conversionRateDecimal * averageOrderValue
Divisors(a, rate) ==
  {a.cpc, FromInt(100), a.monthlyBudget, FromInt(ScenarioCount - 1)}
    \cup IF Positive(rate) /\ Positive(a.averageOrderValue)
         THEN {Multiply(rate, a.averageOrderValue)}
         ELSE {}

\* C32: For every valid Parameter Set no division of the computation has the
\* divisor 0, and breakEvenBudget is 0 when the conversion rate is 0.
C32_NoDivisionByZero ==
  \A h \in Completions :
    h.outcome.computed =>
      /\ \A d \in Divisors(h.args, Divide(h.args.conversionRatePercent, FromInt(100))) :
           ~IsZero(d)
      /\ IsZero(h.args.conversionRatePercent) =>
           RecordOf(h).metrics.breakEvenBudget = PosZero

\* the member key of the object value, Null where value is no object or has
\* no such member
Member(value, key) ==
  IF value # Null /\ "object" \in DOMAIN value /\ key \in DOMAIN value.object
  THEN value.object[key]
  ELSE Null

\* caps is an object whose extensions["io.modelcontextprotocol/ui"].mimeTypes
\* is an array containing "text/html;profile=mcp-app"
SupportsUI(caps) ==
  LET mimeTypes ==
        Member(Member(Member(caps, "extensions"), UI_EXTENSION_ID), "mimeTypes")
  IN  /\ mimeTypes # Null
      /\ "array" \in DOMAIN mimeTypes
      /\ [string |-> UI_MIME_TYPE] \in {mimeTypes.array[i] : i \in DOMAIN mimeTypes.array}

\* C33: hasUISupport(caps) returns true exactly when caps is an object whose
\* extensions["io.modelcontextprotocol/ui"].mimeTypes is an array containing
\* "text/html;profile=mcp-app"; for every other input it returns false, and
\* it never throws.
C33_HasUISupport ==
  \A h \in Completions :
    /\ ~h.outcome.threw
    /\ h.outcome.value <=> SupportsUI(h.args)

\* hasUISupport has returned true for an array in which the MIME type is not
\* the first element
C33_Witness ==
  \E h \in Completions :
    /\ h.outcome.value
    /\ SupportsUI(h.args)
    /\ h.args.object.extensions.object[UI_EXTENSION_ID].object.mimeTypes.array[1]
         # [string |-> UI_MIME_TYPE]

\* C34: At any time at most one call issued by the dashboard is unresolved.
C34_AtMostOneCall == Cardinality(calls) <= 1

\* C35: Whenever a call issued by the dashboard is unresolved, the dashboard
\* is in Loading.
C35_LoadingWhilePending == calls # {} => loading

\* C36: When a debounce timer fires, the Parameter Set passed to the call is
\* the Parameter Set the sliders hold at that moment.
C36_CallPassesDisplayedInputs ==
  [][\A t \in timers : TimerFires(t) => \A c \in Issued : c.args = inputs]_vars

\* C37: Whenever the dashboard, before any teardown, displays a Result
\* Record while no timer is armed and no call is unresolved, the inputs of
\* the record are the Parameter Set the sliders hold.
C37_RecordMatchesSliders ==
  (/\ impl = "dashboard"
   /\ teardown = Null
   /\ ~loading /\ data # Null
   /\ timers = {} /\ calls = {})
    => data.inputs = inputs

\* C38: An edit happens only while the dashboard displays a Result Record
\* and is not Loading, after the initial result has been delivered; before
\* that delivery, and while no record is held, no timer has been armed and
\* no call issued.
C38_EditOnlyOnResult ==
  /\ [][Edit => (~loading /\ data # Null /\ toolResults > 0)]_vars
  /\ []((toolResults = 0 \/ data = Null) =>
          (timers = {} /\ calls = {} /\ nextTimerId = 1))

\* an edit has been made on the record a call has returned
C38_Witness ==
  /\ impl = "dashboard"
  /\ dataCall # 0
  /\ timers # {}
  /\ data # Null
  /\ ~loading

\* a tool result is delivered to the widget in the frame
ResultDelivered ==
  \E result \in ToolResults : OnToolResult(result) \/ WidgetOnToolResult(result)

\* C39: After a tool result has been delivered, whatever its content, the
\* widget is not in Loading, and the dashboard enters Loading afterwards
\* only in a step that issues a call.
C39_ResultEndsLoading ==
  [][/\ ResultDelivered => Variant' # "Loading"
     /\ (impl = "dashboard" /\ toolResults > 0 /\ ~loading /\ loading')
          => Issued # {}]_vars
=============================================================================
